---- MODULE Spec2Model ----
(***************************************************************************)
(* Model of the jobsearcher relevance scoring and ranking engine:          *)
(*   scorer.py      strip_stopwords, score_job_keywords, normalise_score,  *)
(*                  get_embedding, score_ads                               *)
(*   main.py        write_results (methodology line)                       *)
(*   job_scorer.py  parse_jobs, score_job_keywords, main                   *)
(*                                                                         *)
(* Texts are TLA+ strings; Python's str operations are modelled character  *)
(* by character.  Scores that are floats in the source are exact rationals *)
(* here, held as integers in thousandths (final_score) and hundredths      *)
(* (similarity).                                                           *)
(***************************************************************************)
EXTENDS Integers, Sequences, FiniteSets, TLC

\* ------------------------------------------------------------------------
\* Bounds of the model
\* ------------------------------------------------------------------------
MaxAds == 3
MaxTopN == 2
MaxFinalN == 3
MaxWords == 2

\* ------------------------------------------------------------------------
\* Program constants
\* ------------------------------------------------------------------------
EMBED_MAX_CHARS == 2000

\* ------------------------------------------------------------------------
\* Python built-ins used by the source
\* ------------------------------------------------------------------------
Min(a, b) == IF a <= b THEN a ELSE b
Max(a, b) == IF a >= b THEN a ELSE b

Ch(s, i) == SubSeq(s, i, i)

\* str.lower() on one character
LowerChar(c) ==
  CASE c = "A" -> "a" [] c = "B" -> "b" [] c = "C" -> "c" [] c = "D" -> "d"
    [] c = "E" -> "e" [] c = "F" -> "f" [] c = "G" -> "g" [] c = "H" -> "h"
    [] c = "I" -> "i" [] c = "J" -> "j" [] c = "K" -> "k" [] c = "L" -> "l"
    [] c = "M" -> "m" [] c = "N" -> "n" [] c = "O" -> "o" [] c = "P" -> "p"
    [] c = "Q" -> "q" [] c = "R" -> "r" [] c = "S" -> "s" [] c = "T" -> "t"
    [] c = "U" -> "u" [] c = "V" -> "v" [] c = "W" -> "w" [] c = "X" -> "x"
    [] c = "Y" -> "y" [] c = "Z" -> "z" [] c = "Å" -> "å" [] c = "Ä" -> "ä"
    [] c = "Ö" -> "ö" [] OTHER -> c

\* str.lower()
RECURSIVE lower(_)
lower(s) == IF s = "" THEN "" ELSE LowerChar(Ch(s, 1)) \o lower(SubSeq(s, 2, Len(s)))

\* a character the regex class \s matches
IsSpace(c) == c \in {" ", "\n", "\t"}

\* `kw in text` on Python strings: substring containment
Contains(kw, text) ==
  \E i \in 1..(Len(text) - Len(kw) + 1) : SubSeq(text, i, i + Len(kw) - 1) = kw

\* text[:n] for n >= 0
Truncate(text, n) == SubSeq(text, 1, Min(Len(text), n))

\* seq[:n] with Python's slice semantics (a negative n counts from the end)
Slice(seq, n) ==
  IF n >= 0 THEN SubSeq(seq, 1, Min(Len(seq), n))
  ELSE SubSeq(seq, 1, Max(0, Len(seq) + n))

\* "".join(parts)
RECURSIVE Join(_)
Join(parts) == IF parts = <<>> THEN "" ELSE Head(parts) \o Join(Tail(parts))

\* ------------------------------------------------------------------------
\* Stopword filtering (scorer.py 38-42, job_scorer.py 56-64)
\* ------------------------------------------------------------------------
\* last index of the maximal run of same-class characters starting at i
RECURSIVE RunEnd(_, _)
RunEnd(text, i) ==
  IF i < Len(text) /\ IsSpace(Ch(text, i + 1)) = IsSpace(Ch(text, i))
  THEN RunEnd(text, i + 1) ELSE i

RECURSIVE Runs(_, _)
Runs(text, i) ==
  IF i > Len(text) THEN <<>>
  ELSE LET j == RunEnd(text, i) IN <<SubSeq(text, i, j)>> \o Runs(text, j + 1)

\* variant: the pattern has no capture group, so the whitespace runs are
\* not among the parts
re_split_ws_no_group(text) ==
  IF text = "" THEN <<"">>
  ELSE (IF IsSpace(Ch(text, 1)) THEN <<"">> ELSE <<>>)
       \o SelectSeq(Runs(text, 1), LAMBDA w : ~IsSpace(Ch(w, 1)))
       \o (IF IsSpace(Ch(text, Len(text))) THEN <<"">> ELSE <<>>)

\* re.split(r"(\s+)", text): words and the whitespace runs between them,
\* with an empty word before a leading and after a trailing whitespace run
re_split_ws(text) ==
  IF text = "" THEN <<"">>
  ELSE (IF IsSpace(Ch(text, 1)) THEN <<"">> ELSE <<>>)
       \o Runs(text, 1)
       \o (IF IsSpace(Ch(text, Len(text))) THEN <<"">> ELSE <<>>)

\* w.strip() == ""
IsBlank(w) == \A i \in 1..Len(w) : IsSpace(Ch(w, i))

RECURSIVE KeepWords(_, _)
KeepWords(words, stopwords) ==
  IF words = <<>> THEN <<>>
  ELSE LET w == Head(words) IN
       (IF IsBlank(w) \/ lower(w) \notin stopwords THEN <<w>> ELSE <<>>)
       \o KeepWords(Tail(words), stopwords)

strip_stopwords(text, stopwords) ==
  IF stopwords = {} THEN text
  ELSE Join(KeepWords(re_split_ws(text), stopwords))

\* the stopword set loaded at import time from stopwords-sv.txt
\* (scorer.py 30-35); the file's lines are not part of the sources
STOPWORDS == {"och", "i", "att", "en"}

\* ------------------------------------------------------------------------
\* Keyword lexicon of scorer.py (49-104)
\* ------------------------------------------------------------------------
PROFILE_KEYWORDS_high ==
  << "cybersecurity", "cybersäkerhet", "it-säkerhet", "informationssäkerhet",
     "information security", "säkerhetsspecialist", "säkerhetschef", "ciso",
     "säkerhetsskydd", "skyddssäkerhet", "säkerhetssamordnare",
     "security architect", "säkerhetsarkitekt", "security officer",
     "mssp", "soc", "security operations", "soc analyst", "soc manager",
     "microsoft 365", "m365", "microsoft defender", "defender", "sentinel",
     "entra", "intune", "purview", "microsoft security",
     "kql", "powershell", "fortisiem", "sentinelone", "tenable",
     "incident", "incidenthantering", "incident management", "incident response",
     "nis2", "dora", "gdpr", "compliance", "efterlevnad",
     "technical delivery", "delivery manager" >>

PROFILE_KEYWORDS_medium ==
  << "risk", "riskhantering", "riskanalys", "risk management",
     "säkerhetsincident", "security incident",
     "hotbild", "threat", "threat intelligence", "underrättelse",
     "säkerhetsstrateg", "säkerhetsstrategi", "security strategy",
     "verksamhetsskydd",
     "kontinuitet", "continuity", "beredskap", "crisis", "krisberedskap",
     "säkerhetspolicy", "security policy",
     "ledning", "ledarskap", "leadership", "manager", "chef", "lead",
     "zero trust", "xdr", "edr", "siem",
     "säkerhetsrevision", "audit", "penetrationstest", "penetration testing",
     "exchange" >>

PROFILE_KEYWORDS_low ==
  << "strategi", "strategy", "strategisk",
     "samarbete", "collaboration", "samverkan",
     "projekt", "project", "projektledning",
     "kommunikation", "communication",
     "process", "processutveckling",
     "kvalitet", "quality",
     "offentlig sektor", "myndighet", "statlig" >>

NEGATIVE_KEYWORDS ==
  << "läkemedel", "pharmaceutical", "apotek",
     "fastighet", "lokalstrateg", "lokaler", "hyresvärd",
     "data center", "datacenter", "facility manager",
     "energi", "kraft", "elbolag",
     "bygg", "construction", "tunnelbana", "spårväg",
     "bemanning", "rekrytering", "recruitment", "consultant manager",
     "lss", "omsorg", "hemtjänst", "äldreomsorg",
     "gruv", "mineral", "metall",
     "handläggare", "stiftelserätt",
     "sjuksköterska", "läkare", "tandläkare" >>

\* ------------------------------------------------------------------------
\* Keyword lexicon of job_scorer.py (71-126); it has drifted from scorer.py
\* ------------------------------------------------------------------------
JS_PROFILE_KEYWORDS_high ==
  << "cybersecurity", "cybersäkerhet", "it-säkerhet", "informationssäkerhet",
     "information security", "säkerhetsspecialist", "säkerhetschef", "ciso",
     "säkerhetsskydd", "skyddssäkerhet",
     "mssp", "soc", "security operations",
     "microsoft 365", "m365", "microsoft defender", "defender", "sentinel",
     "entra", "intune", "purview", "microsoft security",
     "incident", "incidenthantering", "incident management", "incident response",
     "nis2", "dora", "gdpr", "compliance", "efterlevnad",
     "technical delivery", "delivery manager" >>

JS_PROFILE_KEYWORDS_medium ==
  << "risk", "riskhantering", "riskanalys", "risk management",
     "säkerhetsincident", "security incident",
     "hotbild", "threat", "threat intelligence", "underrättelse",
     "säkerhetsstrateg", "säkerhetsstrategi", "security strategy", "säkerhetsarkitekt",
     "verksamhetsskydd",
     "kontinuitet", "continuity", "beredskap", "crisis", "krisberedskap",
     "säkerhetspolicy", "security policy",
     "ledning", "ledarskap", "leadership", "manager", "chef", "lead",
     "zero trust", "xdr", "edr", "siem",
     "säkerhetsrevision", "audit", "penetrationstest" >>

JS_PROFILE_KEYWORDS_low == PROFILE_KEYWORDS_low

JS_NEGATIVE_KEYWORDS == NEGATIVE_KEYWORDS

\* ------------------------------------------------------------------------
\* Keyword scoring (scorer.py 107-129, job_scorer.py 129-152)
\* ------------------------------------------------------------------------
\* for kw in kws: if kw in text: score += weight
RECURSIVE TierScore(_, _, _)
TierScore(kws, text, weight) ==
  IF kws = <<>> THEN 0
  ELSE (IF Contains(Head(kws), text) THEN weight ELSE 0)
       + TierScore(Tail(kws), text, weight)

\* variant: the context terms are not looked at
PenaltyWeightNoContext(text) == 3

\* the amount one matching negative keyword adds to the penalty
PenaltyWeight(text) ==
  IF Contains("säkerhet", text) \/ Contains("security", text) THEN 1 ELSE 3

\* max(0, score - penalty)
FloorAtZero(score, penalty) == Max(0, score - penalty)

\* scorer.py score_job_keywords(text)
score_job_keywords(text0) ==
  LET text == lower(text0)
      score == TierScore(PROFILE_KEYWORDS_high, text, 3)
               + TierScore(PROFILE_KEYWORDS_medium, text, 2)
               + TierScore(PROFILE_KEYWORDS_low, text, 1)
      penalty == TierScore(NEGATIVE_KEYWORDS, text, PenaltyWeight(text))
  IN FloorAtZero(score, penalty)

\* job_scorer.py score_job_keywords(job): reads job['text'] as it is
js_score_job_keywords(job) ==
  LET text == job.text
      score == TierScore(JS_PROFILE_KEYWORDS_high, text, 3)
               + TierScore(JS_PROFILE_KEYWORDS_medium, text, 2)
               + TierScore(JS_PROFILE_KEYWORDS_low, text, 1)
      penalty == TierScore(JS_NEGATIVE_KEYWORDS, text, PenaltyWeight(text))
  IN FloorAtZero(score, penalty)

\* variant: the ratings of two neighbouring thresholds are exchanged
thresholds_exchanged ==
  << <<15, 10>>, <<12, 9>>, <<10, 8>>, <<8, 6>>, <<6, 7>>,
     <<5, 5>>, <<4, 4>>, <<3, 3>>, <<2, 2>> >>

\* normalise_score(raw) (scorer.py 132-139, job_scorer.py 155-162)
thresholds ==
  << <<15, 10>>, <<12, 9>>, <<10, 8>>, <<8, 7>>, <<6, 6>>,
     <<5, 5>>, <<4, 4>>, <<3, 3>>, <<2, 2>> >>

RECURSIVE FirstThreshold(_, _)
FirstThreshold(ts, raw) ==
  IF ts = <<>> THEN 1
  ELSE IF raw >= Head(ts)[1] THEN Head(ts)[2]
  ELSE FirstThreshold(Tail(ts), raw)

\* variant: a raw score below the last threshold is returned as it is
normalise_score_no_default(raw) ==
  IF raw >= 2 THEN FirstThreshold(thresholds, raw) ELSE raw

normalise_score(raw) == FirstThreshold(thresholds, raw)

\* ------------------------------------------------------------------------
\* Sorting: sorted(seq, key=...) is stable (scorer.py 237, 260)
\* ------------------------------------------------------------------------
\* position of i in an order already sorted ascending by key: after every
\* element whose key is not greater
RECURSIVE InsertStable(_, _, _)
InsertStable(order, i, key) ==
  IF order = <<>> THEN <<i>>
  ELSE IF key[Head(order)] <= key[i]
       THEN <<Head(order)>> \o InsertStable(Tail(order), i, key)
       ELSE <<i>> \o order

RECURSIVE SortPrefix(_, _)
SortPrefix(key, n) ==
  IF n = 0 THEN <<>> ELSE InsertStable(SortPrefix(key, n - 1), n, key)

\* variant: a sort that is not stable, elements with equal keys come out
\* in reverse input order
sorted_ties_reversed(key) ==
  SortPrefix([i \in DOMAIN key |-> key[i] * (Len(key) + 1) - i], Len(key))

\* the indices 1..Len(key) in the order sorted(..., key=key) puts them
sorted(key) == SortPrefix(key, Len(key))

\* ------------------------------------------------------------------------
\* Embedding provider (scorer.py 146-164, job_scorer.py 169-187)
\* ------------------------------------------------------------------------
\* what the HTTP call to the provider can do
ProviderOutcomes ==
  {"ok", "refused", "status", "timeout_connect", "timeout_read",
   "bad_json", "bad_shape"}

\* cosine similarities (in hundredths) a returned vector can have with the
\* resume vector
Sims == {-50, 10, 90}

\* get_embedding: what the call gives its caller.  Only urllib.error.URLError
\* (connection failure, HTTPError for a non-2xx status, a timeout while
\* connecting) is turned into RuntimeError; a timeout while reading the
\* response, a body that is not JSON and JSON of another shape propagate as
\* they are.
get_embedding(outcome) ==
  CASE outcome = "ok" -> "vector"
    [] outcome \in {"refused", "status", "timeout_connect"} -> "RuntimeError"
    [] outcome = "timeout_read" -> "TimeoutError"
    [] outcome = "bad_json" -> "JSONDecodeError"
    [] outcome = "bad_shape" -> "KeyError"

\* ------------------------------------------------------------------------
\* Score arithmetic (thousandths; similarity in hundredths)
\* ------------------------------------------------------------------------
\* kw_score / 10.0
KeywordOnlyScore(kw_score) == kw_score * 100

\* variant: the two weights are swapped
FusedScoreSwapped(kw_score, similarity) ==
  (6 * KeywordOnlyScore(kw_score) + 4 * (similarity * 10)) \div 10

\* 0.4 * (kw_score / 10.0) + 0.6 * similarity
FusedScore(kw_score, similarity) ==
  (4 * KeywordOnlyScore(kw_score) + 6 * (similarity * 10)) \div 10

\* variant: the 0.4 multiplier is left out
NonCandidateUnscaled(kw_score) == KeywordOnlyScore(kw_score)

\* kw_score / 10.0 * 0.4
NonCandidateScore(kw_score) == (KeywordOnlyScore(kw_score) * 4) \div 10

\* ------------------------------------------------------------------------
\* Inputs of score_ads
\* ------------------------------------------------------------------------
\* raw API ads (headline, employer.name, description.text)
SampleAds ==
  { [headline |-> "SOC Analyst", employer |-> "Acme", description |-> "risk och lead"],
    [headline |-> "Security Officer", employer |-> "Bank", description |-> "audit"],
    [headline |-> "Projekt admin", employer |-> "Kommun", description |-> "i team"] }

\* ad lists with one distinct id per ad, as fetch_jobs returns them
AdLists ==
  { [i \in DOMAIN f |-> [id |-> i, headline |-> f[i].headline,
                         employer |-> f[i].employer,
                         description |-> f[i].description]]
    : f \in UNION { [1..n -> SampleAds] : n \in 0..MaxAds } }

TopNs == -1..MaxTopN
FinalNs == -1..MaxFinalN

\* contents of resume.md
RESUME_TEXT == "Security lead och SOC manager"

\* target of the embed request for the resume in the request log
RESUME == 0

\* ------------------------------------------------------------------------
\* State
\* ------------------------------------------------------------------------
VARIABLES
  pc,                  \* position of the run
  ads,                 \* the input: raw ads (scorer.py), raw blocks (job_scorer.py)
  top_n, final_n,      \* top_n / final_n (scorer.py), --top-n / --final (job_scorer.py)
  use_embeddings,      \* use_embeddings (scorer.py), not --no-embed (job_scorer.py)
  resume_exists,       \* RESUME_FILE.exists()
  scored,              \* the list of scored dicts
  embedding_available, \* the resume vector was obtained
  candidates,          \* indices into scored, in candidate order
  candidate_ids,       \* ids of the candidates (scorer.py)
  rest,                \* indices into scored of the non-candidates (job_scorer.py)
  ci,                  \* loop position in candidates (1-based)
  requests,            \* embed requests issued so far, in order
  result,              \* the returned / reported list
  error,               \* exception that ended the run, "" if none
  report,              \* methodology line of the report, "" if none
  kw_text,             \* input text of the function under test
  kw_stop,             \* stopword set of the function under test
  kw_out,              \* what the function under test was given and returned
  raws,                \* the raw scores given to normalise_score
  first,               \* what an earlier call of score_ads on the same input returned
  hits_by_id,          \* fetch_jobs: the hits kept so far, in insertion order
  db_rows,             \* db.py: the rows of the ads table
  today,               \* db.py: date.today(), as a day number
  db_call,             \* db.py: argument, table before, and return value of the last upsert_ads
  seen_ids             \* ids met so far: in API responses (fetcher.py), in upsert arguments (db.py)

runVars == <<pc, ads, top_n, final_n, use_embeddings, resume_exists, scored,
             embedding_available, candidates, candidate_ids, rest, ci,
             requests, result, error, report>>
kwVars == <<kw_text, kw_stop, kw_out>>
otherVars == <<raws, first, hits_by_id, db_rows, today, db_call, seen_ids>>
vars == <<runVars, kwVars, otherVars>>

\* nothing fetched, nothing stored, no earlier call
OtherIdle ==
  /\ raws = <<>>
  /\ first = <<>>
  /\ hits_by_id = <<>>
  /\ db_rows = <<>>
  /\ today = 0
  /\ db_call = <<>>
  /\ seen_ids = {}

\* _extract_text (scorer.py 171-178)
extract_text(ad) == ad.headline \o "\n" \o ad.employer \o "\n" \o ad.description

\* kw_raw of an ad (scorer.py 197-199)
AdKeywordScore(ad) ==
  LET full_text == extract_text(ad)
      filtered_text == strip_stopwords(lower(full_text), STOPWORDS)
  IN score_job_keywords(filtered_text)

\* AdKeywordScore of the sample ads, evaluated once
SampleKeywordScores ==
  [a \in SampleAds |->
     AdKeywordScore([id |-> 0, headline |-> a.headline, employer |-> a.employer,
                     description |-> a.description])]

\* one entry of scored (scorer.py 197-220): the id and the four score
\* fields; the text fields copied from the ad, and _full_text, are read from
\* the ad where they are used
ScoreAd(ad) ==
  LET kw_raw == SampleKeywordScores[[headline |-> ad.headline, employer |-> ad.employer,
                                     description |-> ad.description]]
      kw_score == normalise_score(kw_raw)
  IN [id |-> ad.id, kw_raw |-> kw_raw, kw_score |-> kw_score,
      similarity |-> <<>>, final_score |-> KeywordOnlyScore(kw_score)]

\* the text sent to the provider for a candidate (scorer.py 241)
Snippet(ad) ==
  Truncate(strip_stopwords(ad.headline \o "\n" \o extract_text(ad), STOPWORDS),
           EMBED_MAX_CHARS)

\* variant: the sorted list is not cut to top_n
SelectEveryone(sc, n) == sorted([i \in DOMAIN sc |-> -sc[i].kw_raw])

\* sorted(scored, key=lambda j: -j["kw_raw"])[:top_n]
\* (scorer.py 237, job_scorer.py 316)
SelectCandidates(sc, n) == Slice(sorted([i \in DOMAIN sc |-> -sc[i].kw_raw]), n)

\* variant: the sort key is not negated
RankOrderAscending(sc) == sorted([i \in DOMAIN sc |-> sc[i].final_score])

\* sorted(scored, key=lambda j: -j["final_score"])  (scorer.py 260)
RankOrder(sc) == sorted([i \in DOMAIN sc |-> -sc[i].final_score])

\* ranked[:final_n]  (scorer.py 261, job_scorer.py 355)
Truncated(ranked, n) == Slice(ranked, n)

\* variant: the list is read back from a set, whose iteration order is not
\* the same in every process
InOrderOfSet(sc, order) ==
  IF first = <<>> THEN [k \in DOMAIN order |-> sc[order[k]]]
  ELSE [k \in DOMAIN order |-> sc[order[Len(order) + 1 - k]]]

\* the list whose k-th element is sc[order[k]]
InOrder(sc, order) == [k \in DOMAIN order |-> sc[order[k]]]

\* variant: the non-candidate pass is skipped
PenaliseNobody(sc, ids) == sc

\* for job in scored: if job["id"] not in candidate_ids: ... (scorer.py 252-254)
PenaliseRest(sc, ids) ==
  [i \in DOMAIN sc |->
     IF sc[i].id \notin ids
     THEN [sc[i] EXCEPT !.final_score = NonCandidateScore(sc[i].kw_score)]
     ELSE sc[i]]

\* the similarity a candidate gets when its embed call raised RuntimeError
\* (scorer.py 247, job_scorer.py 343)
FallbackSimilarity == 0

\* variant: the flag is set before the call is known to have succeeded
FlagSetBeforeCall(r) == TRUE

\* the flag after the reference embed call (scorer.py 226-233)
FlagAfterReference(r) == (r = "vector")

\* the methodology line of write_results (main.py 29-32)
MethodologyLine(flag) == IF flag THEN "combined" ELSE "keyword_only"

\* the arguments of a call are read into the state where the code first
\* uses them; until then they hold the defaults of the signature
\* (scorer.py 183-185, job_scorer.py 273-278)
Init ==
  /\ OtherIdle
  /\ pc = "start"
  /\ ads \in AdLists
  /\ top_n = 20
  /\ final_n = 8
  /\ use_embeddings = TRUE
  /\ resume_exists = TRUE
  /\ scored = <<>>
  /\ embedding_available = FALSE
  /\ candidates = <<>>
  /\ candidate_ids = {}
  /\ rest = <<>>
  /\ ci = 1
  /\ requests = <<>>
  /\ result = <<>>
  /\ error = ""
  /\ report = ""
  /\ kw_text = ""
  /\ kw_stop = {}
  /\ kw_out = <<>>

\* scorer.py 195-223: the lexical phase; an empty list returns at once
BuildScored ==
  /\ pc = "start"
  /\ scored' = [i \in DOMAIN ads |-> ScoreAd(ads[i])]
  /\ pc' = IF ads = <<>> THEN "returned" ELSE "reference"
  /\ UNCHANGED <<ads, top_n, final_n, use_embeddings, resume_exists,
                 embedding_available, candidates, candidate_ids, rest, ci,
                 requests, result, error, report, kwVars, otherVars>>

\* scorer.py 226-238: the reference embedding and, when it succeeds, the
\* choice of the candidates
ReferenceEmbedding(use, exists, n, outcome) ==
  /\ pc = "reference"
  /\ use_embeddings' = use
  /\ resume_exists' = exists
  /\ top_n' = n
  /\ IF use /\ exists
     THEN LET r == get_embedding(outcome)
              text == Truncate(strip_stopwords(RESUME_TEXT, STOPWORDS), EMBED_MAX_CHARS)
          IN /\ requests' = Append(requests, [target |-> RESUME, text |-> text, got |-> r])
             /\ embedding_available' = FlagAfterReference(r)
             /\ pc' = CASE r = "vector" -> "candidates"
                        [] r = "RuntimeError" -> "rank"
                        [] OTHER -> "raised"
             /\ error' = IF r \in {"vector", "RuntimeError"} THEN "" ELSE r
             /\ candidates' = IF r = "vector" THEN SelectCandidates(scored, n) ELSE <<>>
     ELSE /\ pc' = "rank"
          /\ UNCHANGED <<requests, embedding_available, error, candidates>>
  /\ candidate_ids' = { scored[candidates'[k]].id : k \in DOMAIN candidates' }
  /\ UNCHANGED <<ads, final_n, scored, rest, ci, result, report, kwVars, otherVars>>

\* scorer.py 240-250: one iteration of the candidate loop
EmbedCandidate(outcome, sim) ==
  /\ pc = "candidates"
  /\ ci <= Len(candidates)
  /\ LET j == candidates[ci]
         job == scored[j]
         r == get_embedding(outcome)
         similarity == IF r = "vector" THEN sim ELSE FallbackSimilarity
     IN /\ requests' = Append(requests, [target |-> job.id, text |-> Snippet(ads[j]), got |-> r])
        /\ IF r \in {"vector", "RuntimeError"}
           THEN /\ scored' = [scored EXCEPT ![j] =
                                [job EXCEPT !.similarity = <<similarity>>,
                                            !.final_score = FusedScore(job.kw_score, similarity)]]
                /\ ci' = ci + 1
                /\ UNCHANGED <<pc, error>>
           ELSE /\ pc' = "raised"
                /\ error' = r
                /\ UNCHANGED <<scored, ci>>
  /\ UNCHANGED <<ads, top_n, final_n, use_embeddings, resume_exists,
                 embedding_available, candidates, candidate_ids, rest, result,
                 report, kwVars, otherVars>>

\* scorer.py 252-261: non-candidate penalty, final sort, truncation
RankAndReturn(n) ==
  /\ \/ pc = "rank"
     \/ pc = "candidates" /\ ci > Len(candidates)
  /\ final_n' = n
  /\ scored' = IF embedding_available THEN PenaliseRest(scored, candidate_ids) ELSE scored
  /\ result' = Truncated(InOrder(scored', RankOrder(scored')), n)
  /\ pc' = "returned"
  /\ UNCHANGED <<ads, top_n, use_embeddings, resume_exists,
                 embedding_available, candidates, candidate_ids, rest, ci,
                 requests, error, report, kwVars, otherVars>>

\* main.py 26-32: the methodology line of the report.  main returns before
\* scoring when there are no ads (main.py 62-65) and asks score_ads for the
\* whole list, final_n = len(ads) (main.py 70)
WriteResults ==
  /\ pc = "returned"
  /\ ads # <<>>
  /\ final_n = Len(ads)
  /\ report' = MethodologyLine(embedding_available)
  /\ pc' = "reported"
  /\ UNCHANGED <<ads, top_n, final_n, use_embeddings, resume_exists, scored,
                 embedding_available, candidates, candidate_ids, rest, ci,
                 requests, result, error, kwVars, otherVars>>

Next ==
  \/ BuildScored
  \/ \E use \in BOOLEAN, exists \in BOOLEAN, n \in TopNs, outcome \in ProviderOutcomes :
       ReferenceEmbedding(use, exists, n, outcome)
  \/ \E outcome \in ProviderOutcomes :
       \E sim \in (IF outcome = "ok" THEN Sims ELSE {FallbackSimilarity}) :
         EmbedCandidate(outcome, sim)
  \/ \E n \in FinalNs : RankAndReturn(n)
  \/ WriteResults

Spec == Init /\ [][Next]_vars
\* ------------------------------------------------------------------------
\* The keyword scorers as functions: inputs and applications
\* ------------------------------------------------------------------------
Vocabulary ==
  {"SOC", "associate", "Säkerhetschef", "security", "Risk", "process",
   "bygg", "apotek", "och", "zero", "trust"}

RECURSIVE JoinWords(_)
JoinWords(ws) ==
  IF ws = <<>> THEN ""
  ELSE IF Len(ws) = 1 THEN ws[1]
  ELSE ws[1] \o " " \o JoinWords(Tail(ws))

\* texts of at most MaxWords words
Texts == { JoinWords(ws) : ws \in UNION { [1..n -> Vocabulary] : n \in 0..MaxWords } }

\* the stopword file is missing, or holds STOPWORDS
StopwordSets == {{}, STOPWORDS}

KwInit ==
  /\ OtherIdle
  /\ pc = "kw_start"
  /\ kw_text \in Texts
  /\ kw_stop \in StopwordSets
  /\ kw_out = <<>>
  /\ ads = <<>>
  /\ top_n = 20
  /\ final_n = 8
  /\ use_embeddings = TRUE
  /\ resume_exists = TRUE
  /\ scored = <<>>
  /\ embedding_available = FALSE
  /\ candidates = <<>>
  /\ candidate_ids = {}
  /\ rest = <<>>
  /\ ci = 1
  /\ requests = <<>>
  /\ result = <<>>
  /\ error = ""
  /\ report = ""

\* scorer.py 107-129 applied to a text
ApplyScorerKeywords ==
  /\ pc = "kw_start"
  /\ kw_out' = [fn |-> "scorer", arg |-> kw_text, ret |-> score_job_keywords(kw_text)]
  /\ pc' = "kw_done"
  /\ UNCHANGED <<ads, top_n, final_n, use_embeddings, resume_exists, scored,
                 embedding_available, candidates, candidate_ids, rest, ci,
                 requests, result, error, report, kw_text, kw_stop, otherVars>>

\* job_scorer.py 129-152 applied to a job whose 'text' parse_jobs built
\* (job_scorer.py 225)
ApplyJobScorerKeywords ==
  /\ pc = "kw_start"
  /\ LET job == [text |-> strip_stopwords(lower(kw_text), kw_stop)]
     IN kw_out' = [fn |-> "job_scorer", arg |-> job.text, ret |-> js_score_job_keywords(job)]
  /\ pc' = "kw_done"
  /\ UNCHANGED <<ads, top_n, final_n, use_embeddings, resume_exists, scored,
                 embedding_available, candidates, candidate_ids, rest, ci,
                 requests, result, error, report, kw_text, kw_stop, otherVars>>

KwNext ==
  \/ ApplyScorerKeywords
  \/ ApplyJobScorerKeywords

KwSpec == KwInit /\ [][KwNext]_vars

\* ------------------------------------------------------------------------
\* job_scorer.py: parse_jobs (194-228)
\* ------------------------------------------------------------------------
\* str.strip()
RECURSIVE lstrip(_)
lstrip(s) == IF s # "" /\ IsSpace(Ch(s, 1)) THEN lstrip(SubSeq(s, 2, Len(s))) ELSE s

RECURSIVE rstrip(_)
rstrip(s) == IF s # "" /\ IsSpace(Ch(s, Len(s))) THEN rstrip(SubSeq(s, 1, Len(s) - 1)) ELSE s

strip(s) == rstrip(lstrip(s))

\* s.split('\n')
RECURSIVE SplitFrom(_, _, _)
SplitFrom(s, start, i) ==
  IF i > Len(s) THEN <<SubSeq(s, start, Len(s))>>
  ELSE IF Ch(s, i) = "\n"
       THEN <<SubSeq(s, start, i - 1)>> \o SplitFrom(s, i + 1, i + 1)
       ELSE SplitFrom(s, start, i + 1)

split_lines(s) == SplitFrom(s, 1, 1)

\* line.startswith(prefix)
startswith(line, prefix) ==
  Len(line) >= Len(prefix) /\ SubSeq(line, 1, Len(prefix)) = prefix

\* line.removeprefix(prefix).strip()
FieldValue(line, prefix) ==
  strip(IF startswith(line, prefix) THEN SubSeq(line, Len(prefix) + 1, Len(line)) ELSE line)

\* the value the loop over the lines leaves: that of the last line that
\* starts with the prefix, "" if there is none
RECURSIVE LastField(_, _)
LastField(lines, prefix) ==
  IF lines = <<>> THEN ""
  ELSE LET line == lines[Len(lines)] IN
       IF startswith(line, prefix) THEN FieldValue(line, prefix)
       ELSE LastField(SubSeq(lines, 1, Len(lines) - 1), prefix)

\* the jobs one block of jobs.txt gives: none or one
ParseBlock(block0, stopwords) ==
  LET block == strip(block0)
      lines == split_lines(block)
      headline == strip(lines[1])
      company == LastField(lines, "Företag:")
      url == LastField(lines, "URL:")
  IN IF block = "" \/ headline = "" \/ company = "" \/ url = "" THEN <<>>
     ELSE << [headline |-> headline, company |-> company, url |-> url,
              raw_text |-> block,
              text |-> strip_stopwords(lower(block), stopwords)] >>

RECURSIVE parse_jobs(_, _)
parse_jobs(blocks, stopwords) ==
  IF blocks = <<>> THEN <<>>
  ELSE ParseBlock(Head(blocks), stopwords) \o parse_jobs(Tail(blocks), stopwords)

\* ------------------------------------------------------------------------
\* job_scorer.py: main (269-391)
\* ------------------------------------------------------------------------
\* blocks of jobs.txt (the text between the '\n---\n' separators)
SampleBlocks ==
  { "SOC Analyst\nFöretag: Acme\nURL: http://jobs/1\nrisk och lead",
    "Projekt admin\nFöretag: Kommun\nURL: http://jobs/2\n",
    "Chef\nFöretag: Region" }

BlockLists == UNION { [1..n -> SampleBlocks] : n \in 0..MaxAds }

\* step 1 (job_scorer.py 304-306); 'similarity' and 'final_score' are not
\* yet keys of the dict: <<>>
JsScoreJob(job) ==
  LET kw_raw == js_score_job_keywords(job) IN
  [headline |-> job.headline, company |-> job.company, url |-> job.url,
   raw_text |-> job.raw_text, text |-> job.text,
   kw_raw |-> kw_raw, kw_score |-> normalise_score(kw_raw),
   similarity |-> <<>>, final_score |-> <<>>]

\* for job in jobs: similarity = None; final_score = kw_score / 10.0
\* (job_scorer.py 310-312, 323-325, 332-334)
JsKeywordOnly(sc) ==
  [i \in DOMAIN sc |->
     [sc[i] EXCEPT !.similarity = <<>>,
                   !.final_score = <<KeywordOnlyScore(sc[i].kw_score)>>]]

RECURSIVE NotInCandidates(_, _, _)
NotInCandidates(sc, cands, i) ==
  IF i > Len(sc) THEN <<>>
  ELSE (IF \E k \in DOMAIN cands : sc[cands[k]] = sc[i] THEN <<>> ELSE <<i>>)
       \o NotInCandidates(sc, cands, i + 1)

\* rest = [j for j in jobs if j not in candidates]: `in` compares the dicts
\* by value (job_scorer.py 317)
JsRest(sc, cands) == NotInCandidates(sc, cands, 1)

\* for job in rest: similarity = None; final_score = kw_score / 10.0 * 0.4
\* (job_scorer.py 349-351)
JsPenaliseRest(sc, rs) ==
  [i \in DOMAIN sc |->
     IF \E k \in DOMAIN rs : rs[k] = i
     THEN [sc[i] EXCEPT !.similarity = <<>>,
                        !.final_score = <<NonCandidateScore(sc[i].kw_score)>>]
     ELSE sc[i]]

\* the methodology line of the report (job_scorer.py 360-363)
JsMethodologyLine(no_embed) == IF ~no_embed THEN "combined" ELSE "keyword_only"

JsInit ==
  /\ OtherIdle
  /\ pc = "js_start"
  /\ ads \in BlockLists
  /\ top_n = 20
  /\ final_n = 8
  /\ use_embeddings = TRUE
  /\ resume_exists = TRUE
  /\ scored = <<>>
  /\ embedding_available = FALSE
  /\ candidates = <<>>
  /\ candidate_ids = {}
  /\ rest = <<>>
  /\ ci = 1
  /\ requests = <<>>
  /\ result = <<>>
  /\ error = ""
  /\ report = ""
  /\ kw_text = ""
  /\ kw_stop = {}
  /\ kw_out = <<>>

\* job_scorer.py 297-306: parse, leave with status 1 if nothing parsed,
\* keyword-score every job
JsParseAndScore ==
  /\ pc = "js_start"
  /\ LET jobs == parse_jobs(ads, STOPWORDS) IN
       /\ scored' = [i \in DOMAIN jobs |-> JsScoreJob(jobs[i])]
       /\ pc' = IF jobs = <<>> THEN "js_exit" ELSE "js_embed"
  /\ UNCHANGED <<ads, top_n, final_n, use_embeddings, resume_exists,
                 embedding_available, candidates, candidate_ids, rest, ci,
                 requests, result, error, report, kwVars, otherVars>>

\* job_scorer.py 309-335: --no-embed, or candidates, rest and the reference
\* embedding
JsReference(no_embed, exists, n, outcome) ==
  /\ pc = "js_embed"
  /\ use_embeddings' = ~no_embed
  /\ resume_exists' = exists
  /\ top_n' = n
  /\ IF no_embed
     THEN /\ scored' = JsKeywordOnly(scored)
          /\ pc' = "js_rank"
          /\ UNCHANGED <<candidates, rest, requests, embedding_available, error>>
     ELSE /\ candidates' = SelectCandidates(scored, n)
          /\ rest' = JsRest(scored, candidates')
          /\ IF ~exists
             THEN /\ scored' = JsKeywordOnly(scored)
                  /\ pc' = "js_rank"
                  /\ UNCHANGED <<requests, embedding_available, error>>
             ELSE LET r == get_embedding(outcome)
                      text == Truncate(strip_stopwords(RESUME_TEXT, STOPWORDS), EMBED_MAX_CHARS)
                  IN /\ requests' = Append(requests, [target |-> RESUME, text |-> text, got |-> r])
                     /\ embedding_available' = (r = "vector")
                     /\ scored' = IF r = "RuntimeError" THEN JsKeywordOnly(scored) ELSE scored
                     /\ pc' = CASE r = "vector" -> "js_candidates"
                                [] r = "RuntimeError" -> "js_rank"
                                [] OTHER -> "raised"
                     /\ error' = IF r \in {"vector", "RuntimeError"} THEN "" ELSE r
  /\ UNCHANGED <<ads, final_n, candidate_ids, ci, result, report, kwVars, otherVars>>

\* job_scorer.py 336-347: one iteration of the candidate loop; the request
\* log names a job by its position in jobs
JsEmbedCandidate(outcome, sim) ==
  /\ pc = "js_candidates"
  /\ ci <= Len(candidates)
  /\ LET j == candidates[ci]
         job == scored[j]
         snippet == Truncate(strip_stopwords(job.headline \o "\n" \o job.raw_text, STOPWORDS),
                             EMBED_MAX_CHARS)
         r == get_embedding(outcome)
         similarity == IF r = "vector" THEN sim ELSE FallbackSimilarity
     IN /\ requests' = Append(requests, [target |-> j, text |-> snippet, got |-> r])
        /\ IF r \in {"vector", "RuntimeError"}
           THEN /\ scored' = [scored EXCEPT ![j] =
                                [job EXCEPT !.similarity = <<similarity>>,
                                            !.final_score = <<FusedScore(job.kw_score, similarity)>>]]
                /\ ci' = ci + 1
                /\ UNCHANGED <<pc, error>>
           ELSE /\ pc' = "raised"
                /\ error' = r
                /\ UNCHANGED <<scored, ci>>
  /\ UNCHANGED <<ads, top_n, final_n, use_embeddings, resume_exists,
                 embedding_available, candidates, candidate_ids, rest, result,
                 report, kwVars, otherVars>>

\* job_scorer.py 349-383: the pass over rest, the final sort (its key reads
\* job['final_score'] of every job), the cut to --final and the report
JsRankAndWrite(n) ==
  /\ \/ pc = "js_rank"
     \/ pc = "js_candidates" /\ ci > Len(candidates)
  /\ final_n' = n
  /\ scored' = IF pc = "js_candidates" THEN JsPenaliseRest(scored, rest) ELSE scored
  /\ IF \E i \in DOMAIN scored' : scored'[i].final_score = <<>>
     THEN /\ pc' = "raised"
          /\ error' = "KeyError: 'final_score'"
          /\ UNCHANGED <<result, report>>
     ELSE /\ result' = Truncated(InOrder(scored',
                                          sorted([i \in DOMAIN scored' |-> -scored'[i].final_score[1]])), n)
          /\ report' = JsMethodologyLine(~use_embeddings)
          /\ pc' = "reported"
          /\ UNCHANGED error
  /\ UNCHANGED <<ads, top_n, use_embeddings, resume_exists,
                 embedding_available, candidates, candidate_ids, rest, ci,
                 requests, kwVars, otherVars>>

JsNext ==
  \/ JsParseAndScore
  \/ \E no_embed \in BOOLEAN, exists \in BOOLEAN, n \in TopNs, outcome \in ProviderOutcomes :
       JsReference(no_embed, exists, n, outcome)
  \/ \E outcome \in ProviderOutcomes :
       \E sim \in (IF outcome = "ok" THEN Sims ELSE {FallbackSimilarity}) :
         JsEmbedCandidate(outcome, sim)
  \/ \E n \in FinalNs : JsRankAndWrite(n)

JsSpec == JsInit /\ [][JsNext]_vars

\* ------------------------------------------------------------------------
\* Idle values of the variable groups, for the specifications that do not
\* use them
\* ------------------------------------------------------------------------
RunIdle ==
  /\ ads = <<>>
  /\ top_n = 20
  /\ final_n = 8
  /\ use_embeddings = TRUE
  /\ resume_exists = TRUE
  /\ scored = <<>>
  /\ embedding_available = FALSE
  /\ candidates = <<>>
  /\ candidate_ids = {}
  /\ rest = <<>>
  /\ ci = 1
  /\ requests = <<>>
  /\ result = <<>>
  /\ error = ""
  /\ report = ""

KwIdle ==
  /\ kw_text = ""
  /\ kw_stop = {}
  /\ kw_out = <<>>

\* ------------------------------------------------------------------------
\* normalise_score as a function: inputs and application
\* ------------------------------------------------------------------------
MaxRaw == 20

\* raw scores, negative ones included
Raws == -MaxRaw..MaxRaw

NormInit ==
  /\ pc = "norm_start"
  /\ raws \in Raws \X Raws
  /\ RunIdle
  /\ KwIdle
  /\ first = <<>>
  /\ hits_by_id = <<>>
  /\ db_rows = <<>>
  /\ today = 0
  /\ db_call = <<>>
  /\ seen_ids = {}

\* scorer.py 132-139 (and its copy job_scorer.py 155-162) applied to each of
\* two raw scores
ApplyNormalise ==
  /\ pc = "norm_start"
  /\ kw_out' = [fn |-> "normalise_score", arg |-> raws,
                ret |-> <<normalise_score(raws[1]), normalise_score(raws[2])>>]
  /\ pc' = "norm_done"
  /\ UNCHANGED <<ads, top_n, final_n, use_embeddings, resume_exists, scored,
                 embedding_available, candidates, candidate_ids, rest, ci,
                 requests, result, error, report, kw_text, kw_stop, otherVars>>

NormNext == ApplyNormalise

NormSpec == NormInit /\ [][NormNext]_vars

\* ------------------------------------------------------------------------
\* strip_stopwords as a function: inputs and application
\* ------------------------------------------------------------------------
MaxPieces == 4

\* words in several casings, and whitespace runs
Pieces == {"och", "Och", "SOC", " ", "\n", "\t "}

StripTexts == { Join(ps) : ps \in UNION { [1..n -> Pieces] : n \in 0..MaxPieces } }

\* the stopword file is missing, holds STOPWORDS, or holds lines that are
\* not lowercase
StripStopwordSets == StopwordSets \cup {{"Och", "soc"}}

StripInit ==
  /\ pc = "strip_start"
  /\ kw_text \in StripTexts
  /\ kw_stop \in StripStopwordSets
  /\ kw_out = <<>>
  /\ RunIdle
  /\ OtherIdle

\* scorer.py 38-42 (and its copy job_scorer.py 59-64) applied to a text and
\* then to its own result
ApplyStripStopwords ==
  /\ pc = "strip_start"
  /\ LET once == strip_stopwords(kw_text, kw_stop)
     IN kw_out' = [fn |-> "strip_stopwords", arg |-> kw_text, ret |-> once,
                   again |-> strip_stopwords(once, kw_stop)]
  /\ pc' = "strip_done"
  /\ UNCHANGED <<ads, top_n, final_n, use_embeddings, resume_exists, scored,
                 embedding_available, candidates, candidate_ids, rest, ci,
                 requests, result, error, report, kw_text, kw_stop, otherVars>>

StripNext == ApplyStripStopwords

StripSpec == StripInit /\ [][StripNext]_vars

\* ------------------------------------------------------------------------
\* score_ads called twice on the same input, the provider answering every
\* embed request of the second call as it answered the same request of the
\* first call
\* ------------------------------------------------------------------------
MaxRerunAds == 2

RerunAdLists == { l \in AdLists : Len(l) <= MaxRerunAds }

DetInit ==
  /\ Init
  /\ ads \in RerunAdLists

\* the first call has returned; the same arguments are passed again
StartSecondCall ==
  /\ pc = "returned"
  /\ first = <<>>
  /\ first' = [result |-> result, embedding_available |-> embedding_available,
               scored |-> scored, requests |-> requests]
  /\ pc' = "start"
  /\ scored' = <<>>
  /\ embedding_available' = FALSE
  /\ candidates' = <<>>
  /\ candidate_ids' = {}
  /\ ci' = 1
  /\ requests' = <<>>
  /\ result' = <<>>
  /\ UNCHANGED <<ads, top_n, final_n, use_embeddings, resume_exists, rest,
                 error, report, kwVars, raws, hits_by_id, db_rows, today, db_call,
                 seen_ids>>

\* the answer to the k-th embed request of the first call: what
\* get_embedding returned and, for a vector, its cosine similarity to the
\* resume vector
FirstAnswer(k) ==
  LET req == first.requests[k]
      docs == { i \in DOMAIN first.scored : first.scored[i].id = req.target }
  IN [got |-> req.got,
      sim |-> IF req.target # RESUME /\ req.got = "vector"
              THEN (first.scored[CHOOSE i \in docs : TRUE]).similarity[1]
              ELSE FallbackSimilarity]

\* the provider answers the next request as it answered the request at the
\* same position of the first call
SameAnswer(outcome, sim) ==
  LET k == Len(requests) + 1 IN
    k <= Len(first.requests) =>
      /\ get_embedding(outcome) = FirstAnswer(k).got
      /\ sim = FirstAnswer(k).sim

DetFirstCall ==
  /\ first = <<>>
  /\ \/ BuildScored
     \/ \E use \in BOOLEAN, exists \in BOOLEAN, n \in TopNs, outcome \in ProviderOutcomes :
          ReferenceEmbedding(use, exists, n, outcome)
     \/ \E outcome \in ProviderOutcomes :
          \E sim \in (IF outcome = "ok" THEN Sims ELSE {FallbackSimilarity}) :
            EmbedCandidate(outcome, sim)
     \/ \E n \in FinalNs : RankAndReturn(n)

DetSecondCall ==
  /\ first # <<>>
  /\ \/ BuildScored
     \/ \E outcome \in ProviderOutcomes :
          /\ SameAnswer(outcome, FallbackSimilarity)
          /\ ReferenceEmbedding(use_embeddings, resume_exists, top_n, outcome)
     \/ \E outcome \in ProviderOutcomes :
          \E sim \in (IF outcome = "ok" THEN Sims ELSE {FallbackSimilarity}) :
            /\ SameAnswer(outcome, sim)
            /\ EmbedCandidate(outcome, sim)
     \/ RankAndReturn(final_n)

DetNext ==
  \/ DetFirstCall
  \/ StartSecondCall
  \/ DetSecondCall

DetSpec == DetInit /\ [][DetNext]_vars

\* ------------------------------------------------------------------------
\* fetcher.py: fetch_jobs (51-81)
\* ------------------------------------------------------------------------
MaxFetchIds == 2
MaxHits == 2

\* fetcher.py 30-38
FREETEXT_QUERIES ==
  << "säkerhetssamordnare", "IT-säkerhet", "cybersäkerhet", "CISO",
     "SOC manager", "security operations", "informationssäkerhet" >>

\* ad ids the API can return
FetchIds == 1..MaxFetchIds

\* a hit as the API returns it: it has no 'query_source' key (<<>>)
ApiHit(i) == [id |-> i, query_source |-> <<>>]

\* what _fetch can do (fetcher.py 41-48): return response.json()["hits"],
\* or raise (requests.get, raise_for_status, json, the missing key)
ApiResponses ==
  { [status |-> "ok", hits |-> [k \in DOMAIN f |-> ApiHit(f[k])]]
      : f \in UNION { [1..n -> FetchIds] : n \in 0..MaxHits } }
  \cup { [status |-> "raised", hits |-> <<>>] }

\* id in hits_by_id
HasId(h, i) == \E k \in DOMAIN h : h[k].id = i

\* hits_by_id[hit["id"]] = hit: a dict keeps the position of a key it
\* already has
PutHit(h, hit) ==
  IF HasId(h, hit.id)
  THEN [k \in DOMAIN h |-> IF h[k].id = hit.id THEN hit ELSE h[k]]
  ELSE Append(h, hit)

\* the loop body of the freetext and remote queries (fetcher.py 69-72,
\* 76-79): the tag is set only on a hit whose id is new, the hit is stored
\* in either case
RECURSIVE MergeHits(_, _, _)
MergeHits(h, hits, tag) ==
  IF hits = <<>> THEN h
  ELSE LET hit == Head(hits)
           tagged == IF ~HasId(h, hit.id)
                     THEN [hit EXCEPT !.query_source = <<tag>>] ELSE hit
       IN MergeHits(PutHit(h, tagged), Tail(hits), tag)

\* the loop body of the occupation group query (fetcher.py 59-61): every
\* hit is tagged and stored
RECURSIVE TagAllHits(_, _, _)
TagAllHits(h, hits, tag) ==
  IF hits = <<>> THEN h
  ELSE TagAllHits(PutHit(h, [Head(hits) EXCEPT !.query_source = <<tag>>]),
                  Tail(hits), tag)

IdsOf(hits) == { hits[k].id : k \in DOMAIN hits }

FetchInit ==
  /\ pc = "fetch_start"
  /\ RunIdle
  /\ KwIdle
  /\ OtherIdle

\* fetcher.py 56-61
FetchOccupationGroups(resp) ==
  /\ pc = "fetch_start"
  /\ IF resp.status = "ok"
     THEN /\ hits_by_id' = TagAllHits(<<>>, resp.hits, "occupation_group")
          /\ seen_ids' = IdsOf(resp.hits)
          /\ pc' = "fetch_freetext"
          /\ UNCHANGED error
     ELSE /\ pc' = "raised"
          /\ error' = "HTTPError"
          /\ UNCHANGED <<hits_by_id, seen_ids>>
  /\ UNCHANGED <<ads, top_n, final_n, use_embeddings, resume_exists, scored,
                 embedding_available, candidates, candidate_ids, rest, ci,
                 requests, result, report, kwVars, raws, first, db_rows,
                 today, db_call>>

\* fetcher.py 68-72: one freetext query
FetchFreetext(resp) ==
  /\ pc = "fetch_freetext"
  /\ IF resp.status = "ok"
     THEN /\ hits_by_id' = MergeHits(hits_by_id, resp.hits,
                                     "freetext:" \o FREETEXT_QUERIES[ci])
          /\ seen_ids' = seen_ids \cup IdsOf(resp.hits)
          /\ IF ci < Len(FREETEXT_QUERIES)
             THEN ci' = ci + 1 /\ pc' = pc
             ELSE ci' = 1 /\ pc' = "fetch_remote"
          /\ UNCHANGED error
     ELSE /\ pc' = "raised"
          /\ error' = "HTTPError"
          /\ UNCHANGED <<hits_by_id, seen_ids, ci>>
  /\ UNCHANGED <<ads, top_n, final_n, use_embeddings, resume_exists, scored,
                 embedding_available, candidates, candidate_ids, rest,
                 requests, result, report, kwVars, raws, first, db_rows,
                 today, db_call>>

\* fetcher.py 75-81: one remote query; after the last one the values of
\* hits_by_id are returned
FetchRemote(resp) ==
  /\ pc = "fetch_remote"
  /\ IF resp.status = "ok"
     THEN /\ hits_by_id' = MergeHits(hits_by_id, resp.hits,
                                     "remote:" \o FREETEXT_QUERIES[ci])
          /\ seen_ids' = seen_ids \cup IdsOf(resp.hits)
          /\ IF ci < Len(FREETEXT_QUERIES)
             THEN ci' = ci + 1 /\ pc' = pc /\ UNCHANGED result
             ELSE ci' = 1 /\ pc' = "fetched" /\ result' = hits_by_id'
          /\ UNCHANGED error
     ELSE /\ pc' = "raised"
          /\ error' = "HTTPError"
          /\ UNCHANGED <<hits_by_id, seen_ids, ci, result>>
  /\ UNCHANGED <<ads, top_n, final_n, use_embeddings, resume_exists, scored,
                 embedding_available, candidates, candidate_ids, rest,
                 requests, report, kwVars, raws, first, db_rows,
                 today, db_call>>

FetchNext ==
  \/ \E resp \in ApiResponses : FetchOccupationGroups(resp)
  \/ \E resp \in ApiResponses : FetchFreetext(resp)
  \/ \E resp \in ApiResponses : FetchRemote(resp)

FetchSpec == FetchInit /\ [][FetchNext]_vars

\* ------------------------------------------------------------------------
\* db.py: the ads table and upsert_ads (56-97)
\* ------------------------------------------------------------------------
MaxUpsert == 2

\* date.today() on the days the program runs
Days == {0, 1}

\* scored ads as score_ads returns them: two ads, each as scored on one run
\* and as fetched again with edited text, another score, no similarity and
\* no query source
DbSampleAds ==
  UNION { { [id |-> i, headline |-> "SOC Analyst", employer |-> "Acme",
             kw_raw |-> 10, kw_score |-> 8, similarity |-> <<90>>,
             final_score |-> 860, query_source |-> "occupation_group"],
            [id |-> i, headline |-> "SOC Analyst (ny)", employer |-> "Acme AB",
             kw_raw |-> 5, kw_score |-> 5, similarity |-> <<>>,
             final_score |-> 500, query_source |-> ""] } : i \in {1, 2} }

UpsertArgs == UNION { [1..n -> DbSampleAds] : n \in 0..MaxUpsert }

\* SELECT id FROM ads WHERE id = ?  (db.py 63)
Existing(rows, i) == \E k \in DOMAIN rows : rows[k].id = i

\* INSERT INTO ads (...) VALUES (...)  (db.py 76-92); of the descriptive
\* columns the table keeps headline and employer here, the others are
\* written in the same statement and nowhere else
InsertRow(rows, ad, day) ==
  Append(rows, [id |-> ad.id, headline |-> ad.headline, employer |-> ad.employer,
                kw_raw |-> ad.kw_raw, kw_score |-> ad.kw_score,
                similarity |-> ad.similarity, final_score |-> ad.final_score,
                first_seen |-> day, last_seen |-> day,
                query_source |-> ad.query_source])

\* variant: the row is replaced by the new ad (INSERT OR REPLACE)
ReplaceRow(rows, ad, day) ==
  [k \in DOMAIN rows |->
     IF rows[k].id = ad.id
     THEN [id |-> ad.id, headline |-> ad.headline, employer |-> ad.employer,
           kw_raw |-> ad.kw_raw, kw_score |-> ad.kw_score,
           similarity |-> ad.similarity, final_score |-> ad.final_score,
           first_seen |-> day, last_seen |-> day,
           query_source |-> ad.query_source]
     ELSE rows[k]]

\* UPDATE ads SET kw_raw, kw_score, similarity, final_score, last_seen,
\* query_source WHERE id = ?  (db.py 65-74)
UpdateRow(rows, ad, day) ==
  [k \in DOMAIN rows |->
     IF rows[k].id = ad.id
     THEN [rows[k] EXCEPT !.kw_raw = ad.kw_raw, !.kw_score = ad.kw_score,
                          !.similarity = ad.similarity,
                          !.final_score = ad.final_score,
                          !.last_seen = day,
                          !.query_source = ad.query_source]
     ELSE rows[k]]

\* the loop of upsert_ads (db.py 62-93): the table and new_count after the
\* ads of scored_ads from position k on
RECURSIVE UpsertFrom(_, _, _, _, _)
UpsertFrom(rows, new_count, scored_ads, k, day) ==
  IF k > Len(scored_ads) THEN [rows |-> rows, new_count |-> new_count]
  ELSE LET ad == scored_ads[k] IN
       IF Existing(rows, ad.id)
       THEN UpsertFrom(UpdateRow(rows, ad, day), new_count, scored_ads, k + 1, day)
       ELSE UpsertFrom(InsertRow(rows, ad, day), new_count + 1, scored_ads, k + 1, day)

DbInit ==
  /\ pc = "db_idle"
  /\ RunIdle
  /\ KwIdle
  /\ OtherIdle

\* db.py 56-97: one call of upsert_ads
UpsertAds(scored_ads) ==
  /\ pc = "db_idle"
  /\ LET done == UpsertFrom(db_rows, 0, scored_ads, 1, today) IN
       /\ db_rows' = done.rows
       /\ db_call' = [arg |-> scored_ads, before |-> db_rows, ret |-> done.new_count]
  /\ seen_ids' = seen_ids \cup IdsOf(scored_ads)
  /\ UNCHANGED <<runVars, kwVars, raws, first, hits_by_id, today>>

\* the next run of the program is on a later day
NextDay ==
  /\ pc = "db_idle"
  /\ today + 1 \in Days
  /\ today' = today + 1
  /\ UNCHANGED <<runVars, kwVars, raws, first, hits_by_id, db_rows, db_call,
                 seen_ids>>

DbNext ==
  \/ \E scored_ads \in UpsertArgs : UpsertAds(scored_ads)
  \/ NextDay

DbSpec == DbInit /\ [][DbNext]_vars

\* ------------------------------------------------------------------------
\* Vocabulary of the properties of score_ads
\* ------------------------------------------------------------------------
\* score_ads has returned
Returned == pc \in {"returned", "reported"}

\* the number of documents that come before document i when the documents
\* are ordered by descending kw_raw, equal kw_raw in input order
RawRank(i) ==
  Cardinality({ e \in DOMAIN scored :
                  \/ scored[e].kw_raw > scored[i].kw_raw
                  \/ scored[e].kw_raw = scored[i].kw_raw /\ e < i })

\* the size of the top-top_n (a negative top_n leaves out that many from the end)
TopCount ==
  IF top_n >= 0 THEN Min(top_n, Len(scored)) ELSE Max(0, Len(scored) + top_n)

\* document i is in the top-top_n by raw score
InTopN(i) == RawRank(i) < TopCount

\* a precedes b in descending final_score, equal scores in input order
Precedes(a, b) ==
  \/ a.final_score > b.final_score
  \/ a.final_score = b.final_score /\ a.id < b.id

\* ------------------------------------------------------------------------
\* C1: Degrade-safety.  If every call to the embedding provider failed with
\* provider-unavailable, score_ads returns embedding_available = false,
\* every returned document has final_score = kw_score/10, and the returned
\* order is descending kw_score, equal ratings in input order.
\* ------------------------------------------------------------------------
C1_DegradeSafety ==
  (Returned /\ \A k \in DOMAIN requests : requests[k].got = "RuntimeError") =>
    /\ embedding_available = FALSE
    /\ \A k \in DOMAIN result : 10 * result[k].final_score = 1000 * result[k].kw_score
    /\ \A k, l \in DOMAIN result :
         k < l => \/ result[k].kw_score > result[l].kw_score
                  \/ /\ result[k].kw_score = result[l].kw_score
                     /\ result[k].id < result[l].id

\* the provider was called and failed, and three documents, two of them with
\* the same rating, were returned
C1_Witness ==
  /\ Returned
  /\ requests # <<>>
  /\ \A k \in DOMAIN requests : requests[k].got = "RuntimeError"
  /\ Len(result) = 3
  /\ \E k, l \in DOMAIN result : k < l /\ result[k].kw_score = result[l].kw_score
  /\ \E k, l \in DOMAIN result : result[k].kw_score # result[l].kw_score

\* ------------------------------------------------------------------------
\* C2: No provider outcome aborts a ranking run: every failure of an embed
\* call reaches score_ads as the provider-unavailable error, and score_ads
\* never raises.
\* ------------------------------------------------------------------------
C2_NoOutcomeAborts ==
  /\ \A k \in DOMAIN requests : requests[k].got \in {"vector", "RuntimeError"}
  /\ pc # "raised"

\* ------------------------------------------------------------------------
\* C3 as stated: of two documents with the same kw_score, one outside the
\* top-top_n and one inside it with similarity >= 0, the one outside has the
\* strictly smaller final_score.
\* ------------------------------------------------------------------------
C3_StrictlyLess ==
  (Returned /\ embedding_available) =>
    \A i, j \in DOMAIN scored :
      ( /\ scored[i].kw_score = scored[j].kw_score
        /\ ~InTopN(i) /\ InTopN(j)
        /\ scored[j].similarity # <<>> /\ scored[j].similarity[1] >= 0 )
      => scored[i].final_score < scored[j].final_score

\* C3 as amended: the one outside has a final_score that is not greater,
\* and strictly smaller when the similarity is positive.
C3_NotGreater ==
  (Returned /\ embedding_available) =>
    \A i, j \in DOMAIN scored :
      ( /\ scored[i].kw_score = scored[j].kw_score
        /\ ~InTopN(i) /\ InTopN(j)
        /\ scored[j].similarity # <<>> /\ scored[j].similarity[1] >= 0 )
      => /\ scored[i].final_score <= scored[j].final_score
         /\ scored[j].similarity[1] > 0 => scored[i].final_score < scored[j].final_score

\* a run with such a pair where the candidate's embedding failed, and one
\* where the candidate has a positive similarity
C3_Witness ==
  /\ Returned /\ embedding_available
  /\ \E i, j \in DOMAIN scored :
       /\ scored[i].kw_score = scored[j].kw_score
       /\ ~InTopN(i) /\ InTopN(j)
       /\ scored[j].similarity = <<0>>
       /\ \E k \in DOMAIN requests :
            requests[k].target = scored[j].id /\ requests[k].got = "RuntimeError"
  /\ \E i, j \in DOMAIN scored :
       /\ scored[i].kw_score = scored[j].kw_score
       /\ ~InTopN(i) /\ InTopN(j)
       /\ scored[j].similarity # <<>> /\ scored[j].similarity[1] > 0

\* ------------------------------------------------------------------------
\* C4 as stated: in every run, reference embedding succeeded or not, a
\* document outside the top-top_n ends with final_score = kw_score/10 * 0.4
\* (read for top_n >= 0, where "top-top_n" has its plain meaning).
\* ------------------------------------------------------------------------
C4_AlwaysPenalised ==
  (Returned /\ top_n >= 0) =>
    \A i \in DOMAIN scored :
      ~InTopN(i) => 100 * scored[i].final_score = 4 * 1000 * scored[i].kw_score

\* C4 as amended: in every run in which the reference embedding succeeded.
C4_PenalisedWhenReranked ==
  (Returned /\ embedding_available) =>
    \A i \in DOMAIN scored :
      ~InTopN(i) => 100 * scored[i].final_score = 4 * 1000 * scored[i].kw_score

\* a reranked run with a document outside the top-top_n and one inside
C4_Witness ==
  /\ Returned /\ embedding_available
  /\ \E i, j \in DOMAIN scored : ~InTopN(i) /\ InTopN(j)

\* ------------------------------------------------------------------------
\* C5: Per-candidate failure isolation.  When the reference embedding
\* succeeded and the embed call for a candidate fails, that candidate gets
\* similarity 0.0 and final_score 0.4 * kw_score/10, the run goes on to the
\* other candidates, and embedding_available stays true.
\* ------------------------------------------------------------------------
C5_FailureIsolation ==
  /\ \A k \in DOMAIN requests :
       (requests[k].target # RESUME /\ requests[k].got # "vector") =>
         /\ pc # "raised"
         /\ embedding_available
         /\ \E i \in DOMAIN scored :
              /\ scored[i].id = requests[k].target
              /\ scored[i].similarity = <<0>>
              /\ 100 * scored[i].final_score = 4 * 1000 * scored[i].kw_score
  /\ (Returned /\ embedding_available) =>
       \A i \in DOMAIN scored :
         InTopN(i) => \E k \in DOMAIN requests : requests[k].target = scored[i].id

\* ------------------------------------------------------------------------
\* C6: Final ordering.  The returned list is the first final_n (>= 0)
\* documents in descending final_score, equal scores in input order: its
\* length is min(final_n, number of ads), no document is in it twice, every
\* document left out comes after every document in it, and it holds every
\* document when final_n >= number of ads.
\* ------------------------------------------------------------------------
C6_FinalOrdering ==
  (Returned /\ final_n >= 0) =>
    /\ Len(result) = Min(final_n, Len(ads))
    /\ \A k, l \in DOMAIN result : k < l => Precedes(result[k], result[l])
    /\ \A k \in DOMAIN result :
         \E i \in DOMAIN scored :
           /\ scored[i].id = result[k].id
           /\ scored[i].final_score = result[k].final_score
           /\ scored[i].kw_score = result[k].kw_score
           /\ scored[i].similarity = result[k].similarity
    /\ \A i \in DOMAIN scored :
         (\A k \in DOMAIN result : result[k].id # scored[i].id) =>
           \A k \in DOMAIN result : Precedes(result[k], scored[i])
    /\ final_n >= Len(ads) =>
         { result[k].id : k \in DOMAIN result } = { ads[i].id : i \in DOMAIN ads }

\* a reranked run of three documents, two with equal final_score, cut to two
C6_Witness ==
  /\ Returned /\ embedding_available
  /\ Len(scored) = 3 /\ final_n = 2 /\ Len(result) = 2
  /\ \E i, j \in DOMAIN scored : i # j /\ scored[i].final_score = scored[j].final_score
  /\ \E i, j \in DOMAIN scored : scored[i].final_score < scored[j].final_score /\ i < j

\* ------------------------------------------------------------------------
\* C8: Provider-call gating.  An embed request for a document is issued only
\* after the reference request completed successfully and only for a
\* document of the top-top_n; none is issued at all when use_embeddings is
\* false, the resume is missing or the ad list is empty.
\* ------------------------------------------------------------------------
C8_Gating ==
  /\ \A k \in DOMAIN requests :
       requests[k].target # RESUME =>
         /\ k > 1
         /\ requests[1].target = RESUME
         /\ requests[1].got = "vector"
         /\ \E i \in DOMAIN scored : scored[i].id = requests[k].target /\ InTopN(i)
  /\ (~use_embeddings \/ ~resume_exists \/ ads = <<>>) => requests = <<>>

\* a finished run that embedded a candidate and left a non-candidate alone
C8_Witness ==
  /\ Returned
  /\ \E k \in DOMAIN requests : requests[k].target # RESUME
  /\ \E i \in DOMAIN scored :
       \A k \in DOMAIN requests : requests[k].target # scored[i].id

\* ------------------------------------------------------------------------
\* C9: Score fusion.  When the reference embedding succeeded, every
\* candidate that has been processed has
\* final_score = 0.4 * (kw_score/10) + 0.6 * similarity.  With top_n = 2,
\* ratings [8,5,1], raw scores [10,5,1] and similarities [0.9, 0.1] the
\* final scores are 0.86, 0.26, 0.04 and the order is doc1, doc2, doc3.
\* ------------------------------------------------------------------------
ScenarioE ==
  /\ Returned /\ embedding_available
  /\ top_n = 2 /\ final_n = 3 /\ Len(scored) = 3
  /\ <<scored[1].kw_raw, scored[2].kw_raw, scored[3].kw_raw>> = <<10, 5, 1>>
  /\ <<scored[1].kw_score, scored[2].kw_score, scored[3].kw_score>> = <<8, 5, 1>>
  /\ scored[1].similarity = <<90>>
  /\ scored[2].similarity = <<10>>

C9_ScoreFusion ==
  /\ embedding_available =>
       \A k \in DOMAIN candidates :
         k < ci =>
           LET job == scored[candidates[k]] IN
             /\ job.similarity # <<>>
             /\ 10 * job.final_score = 4 * (100 * job.kw_score) + 6 * (10 * job.similarity[1])
  /\ ScenarioE =>
       /\ <<scored[1].final_score, scored[2].final_score, scored[3].final_score>>
            = <<860, 260, 40>>
       /\ <<result[1].id, result[2].id, result[3].id>> = <<1, 2, 3>>

C9_Witness == ScenarioE /\ Len(result) = 3
\* ------------------------------------------------------------------------
\* C7: The report surfaces the mode that produced the ranking: its
\* methodology line says 'combined keyword + embedding similarity' exactly
\* when the reference embedding succeeded and reranking ran, in main.py and
\* in job_scorer.py.
\* ------------------------------------------------------------------------
C7_ReportSurfacesMode ==
  report # "" => (report = "combined" <=> embedding_available)

\* ------------------------------------------------------------------------
\* C10: score_job_keywords returns max(0, 3*H + 2*M + 1*L - P): H, M, L the
\* numbers of high, medium and low phrases that are substrings of the
\* lowercased text, P the number of matching negative phrases, times 1 if the
\* text holds 'security' or 'säkerhet' and times 3 if not.  The result is
\* never negative, and 0 for a text that matches no phrase.
\* ------------------------------------------------------------------------
PhrasesIn(kws, text) ==
  Cardinality({ kw \in { kws[k] : k \in DOMAIN kws } : Contains(kw, text) })

HasContextTerm(text) ==
  \E i \in 1..Len(text) :
    \/ i + 7 <= Len(text) /\ SubSeq(text, i, i + 7) \in {"security", "säkerhet"}

ExpectedRaw(fn, text) ==
  LET H == PhrasesIn(IF fn = "scorer" THEN PROFILE_KEYWORDS_high ELSE JS_PROFILE_KEYWORDS_high, text)
      M == PhrasesIn(IF fn = "scorer" THEN PROFILE_KEYWORDS_medium ELSE JS_PROFILE_KEYWORDS_medium, text)
      L == PhrasesIn(IF fn = "scorer" THEN PROFILE_KEYWORDS_low ELSE JS_PROFILE_KEYWORDS_low, text)
      N == PhrasesIn(IF fn = "scorer" THEN NEGATIVE_KEYWORDS ELSE JS_NEGATIVE_KEYWORDS, text)
      P == N * (IF HasContextTerm(text) THEN 1 ELSE 3)
  IN [signal |-> 3 * H + 2 * M + 1 * L, penalty |-> P, matches |-> H + M + L + N]

C10_KeywordScore ==
  kw_out # <<>> =>
    LET e == ExpectedRaw(kw_out.fn, lower(kw_out.arg)) IN
      /\ kw_out.ret = (IF e.signal - e.penalty > 0 THEN e.signal - e.penalty ELSE 0)
      /\ kw_out.ret >= 0
      /\ e.matches = 0 => kw_out.ret = 0

\* a text in mixed case with a negative phrase softened by a context term
C10_Witness ==
  /\ kw_out # <<>>
  /\ kw_out.fn = "scorer"
  /\ kw_out.arg # lower(kw_out.arg)
  /\ LET e == ExpectedRaw(kw_out.fn, lower(kw_out.arg)) IN
       /\ e.penalty = 1
       /\ e.signal > 1
       /\ kw_out.ret = e.signal - 1

\* ------------------------------------------------------------------------
\* C11: normalise_score maps every integer raw score, zero and negative
\* ones included, to the rating of the first threshold it reaches, checked
\* from the highest down (>=15 -> 10, >=12 -> 9, >=10 -> 8, >=8 -> 7,
\* >=6 -> 6, >=5 -> 5, >=4 -> 4, >=3 -> 3, >=2 -> 2, else 1); the rating is
\* an integer between 1 and 10.
\* ------------------------------------------------------------------------
RatingByTable(raw) ==
  CASE raw >= 15 -> 10
    [] raw >= 12 /\ raw < 15 -> 9
    [] raw >= 10 /\ raw < 12 -> 8
    [] raw >= 8 /\ raw < 10 -> 7
    [] raw >= 6 /\ raw < 8 -> 6
    [] raw = 5 -> 5
    [] raw = 4 -> 4
    [] raw = 3 -> 3
    [] raw = 2 -> 2
    [] raw < 2 -> 1

C11_RatingBounds ==
  pc = "norm_done" =>
    \A k \in 1..2 :
      /\ kw_out.ret[k] = RatingByTable(kw_out.arg[k])
      /\ kw_out.ret[k] \in 1..10

\* a negative raw score and a raw score above the highest threshold were rated
C11_Witness ==
  /\ pc = "norm_done"
  /\ kw_out.arg[1] < 0 /\ kw_out.ret[1] = 1
  /\ kw_out.arg[2] > 15 /\ kw_out.ret[2] = 10

\* ------------------------------------------------------------------------
\* C12: threshold monotonicity: for raw scores r1 <= r2,
\* normalise_score(r1) <= normalise_score(r2).
\* ------------------------------------------------------------------------
C12_Monotone ==
  pc = "norm_done" =>
    (kw_out.arg[1] <= kw_out.arg[2] => kw_out.ret[1] <= kw_out.ret[2])

\* two different raw scores on either side of a threshold
C12_Witness ==
  /\ pc = "norm_done"
  /\ kw_out.arg[1] = 7 /\ kw_out.arg[2] = 8
  /\ kw_out.ret[1] < kw_out.ret[2]

\* the whitespace characters of s, in order
RECURSIVE SpaceChars(_)
SpaceChars(s) ==
  IF s = "" THEN ""
  ELSE (IF IsSpace(Ch(s, 1)) THEN Ch(s, 1) ELSE "") \o SpaceChars(SubSeq(s, 2, Len(s)))

\* the maximal runs of non-whitespace characters of s, in order
RECURSIVE WordsFrom(_, _, _)
WordsFrom(s, i, word) ==
  IF i > Len(s) THEN (IF word = "" THEN <<>> ELSE <<word>>)
  ELSE IF IsSpace(Ch(s, i))
       THEN (IF word = "" THEN <<>> ELSE <<word>>) \o WordsFrom(s, i + 1, "")
       ELSE WordsFrom(s, i + 1, word \o Ch(s, i))

WordsOf(s) == WordsFrom(s, 1, "")

\* ------------------------------------------------------------------------
\* C13: idempotent normalisation: for every text t and every stopword set
\* strip_stopwords(strip_stopwords(t)) = strip_stopwords(t); with the empty
\* stopword set the text is returned unchanged; every whitespace character
\* of t is kept, and the words that are retained are the words of t whose
\* lowercase form is not a stopword, in their original casing.
\* ------------------------------------------------------------------------
C13_Idempotent ==
  pc = "strip_done" =>
    /\ kw_out.again = kw_out.ret
    /\ (kw_stop = {} => kw_out.ret = kw_out.arg)
    /\ SpaceChars(kw_out.ret) = SpaceChars(kw_out.arg)
    /\ WordsOf(kw_out.ret) =
         SelectSeq(WordsOf(kw_out.arg), LAMBDA w : lower(w) \notin kw_stop)

\* a capitalised stopword between two whitespace runs was removed from a
\* text that keeps another word
C13_Witness ==
  /\ pc = "strip_done"
  /\ kw_stop = STOPWORDS
  /\ kw_out.arg = "SOC Och\n"
  /\ kw_out.ret = "SOC \n"
  /\ kw_out.again = "SOC \n"

C15_OnePerId ==
  pc = "fetched" =>
    /\ IdsOf(result) = seen_ids
    /\ \A a, b \in DOMAIN result : result[a].id = result[b].id => a = b

C15_OnePerIdAllTagged ==
  pc = "fetched" =>
    /\ IdsOf(result) = seen_ids
    /\ \A a, b \in DOMAIN result : result[a].id = result[b].id => a = b
    /\ \A k \in DOMAIN result : result[k].query_source # <<>>

\* the row of id i in a table that has one
RowOf(rows, i) == rows[CHOOSE k \in DOMAIN rows : rows[k].id = i]

\* ------------------------------------------------------------------------
\* C16: upsert_ads returns the number of ads newly inserted.  After any
\* sequence of calls the ads table holds exactly one row per distinct id
\* ever upserted; the return value of a call is the number of distinct ids
\* of its argument that had no row before the call; and an update of an
\* existing row changes only the score fields, last_seen and query_source:
\* first_seen and the descriptive columns stay as they were.
\* ------------------------------------------------------------------------
C16_UpsertCount ==
  /\ IdsOf(db_rows) = seen_ids
  /\ \A a, b \in DOMAIN db_rows : db_rows[a].id = db_rows[b].id => a = b
  /\ db_call # <<>> =>
       /\ db_call.ret = Cardinality(IdsOf(db_call.arg) \ IdsOf(db_call.before))
       /\ \A k \in DOMAIN db_call.before :
            LET old == db_call.before[k]
                new == RowOf(db_rows, old.id)
            IN /\ new.first_seen = old.first_seen
               /\ new.headline = old.headline
               /\ new.employer = old.employer
               /\ old.id \notin IdsOf(db_call.arg) => new = old

\* a call on a later day listed a stored ad, with edited text and another
\* score, and a new ad: one insert is counted, the stored row keeps its
\* first_seen and headline and has the new score and last_seen
C16_Witness ==
  /\ db_call # <<>>
  /\ Len(db_call.arg) = 2
  /\ db_call.ret = 1
  /\ Len(db_rows) = Len(db_call.before) + 1
  /\ \E k \in DOMAIN db_call.before :
       LET old == db_call.before[k]
           new == RowOf(db_rows, old.id)
       IN /\ \E a \in DOMAIN db_call.arg :
               /\ db_call.arg[a].id = old.id
               /\ db_call.arg[a].headline # old.headline
          /\ new.last_seen > old.last_seen
          /\ new.first_seen = old.first_seen
          /\ new.headline = old.headline
          /\ new.kw_raw # old.kw_raw

\* position i of scored is one of the candidates
IsCandidate(i) == \E k \in DOMAIN candidates : candidates[k] = i

\* scorer.py: after a hybrid run every ad has the fused score if it is a
\* candidate and the penalised score if it is not
C17_ScoredOnceInScorer ==
  (Returned /\ embedding_available) =>
    \A i \in DOMAIN scored :
      /\ IsCandidate(i) =>
           /\ scored[i].similarity # <<>>
           /\ scored[i].final_score = FusedScore(scored[i].kw_score, scored[i].similarity[1])
      /\ ~IsCandidate(i) =>
           /\ scored[i].similarity = <<>>
           /\ scored[i].final_score = NonCandidateScore(scored[i].kw_score)

\* ------------------------------------------------------------------------
\* C17: in hybrid mode (the reference embedding succeeded) every document
\* is scored exactly once before the final sort: a candidate gets the fused
\* score, a non-candidate gets kw_score/10 * 0.4, never neither and never
\* both, so the final sort finds a final_score on every document.  This is
\* to hold for any input list in both pipelines; it is stated here for
\* job_scorer.py, for any parsed job blocks, repeated blocks with identical
\* content included.
\* ------------------------------------------------------------------------
C17_ScoredExactlyOnce ==
  /\ error # "KeyError: 'final_score'"
  /\ (pc = "reported" /\ embedding_available) =>
       \A i \in DOMAIN scored :
         /\ scored[i].final_score # <<>>
         /\ IsCandidate(i) =>
              /\ scored[i].similarity # <<>>
              /\ scored[i].final_score =
                   <<FusedScore(scored[i].kw_score, scored[i].similarity[1])>>
         /\ ~IsCandidate(i) =>
              /\ scored[i].similarity = <<>>
              /\ scored[i].final_score = <<NonCandidateScore(scored[i].kw_score)>>

\* document a comes before document b in the list sorted by descending
\* kw_raw with ties in input order
RawBefore(a, b) ==
  \/ scored[a].kw_raw > scored[b].kw_raw
  \/ scored[a].kw_raw = scored[b].kw_raw /\ a < b

\* the embed requests for documents, in the order they were issued
DocumentRequests == SelectSeq(requests, LAMBDA r : r.target # RESUME)

\* ------------------------------------------------------------------------
\* C18: candidate selection: when the reference embedding succeeded and
\* top_n >= 0, the candidates are the first top_n documents of the list
\* sorted by descending kw_raw with ties kept in input order; there are
\* min(top_n, number of ads) of them, they are embedded in that order, and
\* no non-candidate has a strictly higher kw_raw than any candidate.
\* ------------------------------------------------------------------------
C18_CandidateSelection ==
  (embedding_available /\ top_n >= 0) =>
    /\ Len(candidates) = Min(top_n, Len(scored))
    /\ \A a, b \in DOMAIN candidates : a < b => RawBefore(candidates[a], candidates[b])
    /\ \A i \in DOMAIN scored :
         ~IsCandidate(i) =>
           \A k \in DOMAIN candidates :
             /\ RawBefore(candidates[k], i)
             /\ scored[i].kw_raw <= scored[candidates[k]].kw_raw
    /\ Len(DocumentRequests) <= Len(candidates)
    /\ \A k \in DOMAIN DocumentRequests :
         DocumentRequests[k].target = scored[candidates[k]].id
    /\ Returned => Len(DocumentRequests) = Len(candidates)

\* of three ads the second and third tie on kw_raw above the first; with
\* top_n = 2 they were chosen and embedded in input order
C18_Witness ==
  /\ Returned
  /\ embedding_available
  /\ top_n = 2
  /\ Len(scored) = 3
  /\ scored[2].kw_raw = scored[3].kw_raw
  /\ scored[1].kw_raw < scored[2].kw_raw
  /\ candidates = <<2, 3>>
  /\ Len(DocumentRequests) = 2
  /\ DocumentRequests[1].target = scored[2].id
  /\ DocumentRequests[2].target = scored[3].id
====
